---- MODULE Spec2Model ----
(***************************************************************************)
(* The sliding-window VWAP calculator of src/vwap-calculator/main.go: the  *)
(* ring buffer, the running sums kept as exact rationals, the mutex around *)
(* Update and Calculate, and the connect/retry loop of main.               *)
(***************************************************************************)
EXTENDS Integers, Sequences, FiniteSets, TLC

\* The window size N (200 in the source), scaled down for model checking.
windowSize == 3

\* const maxRetries
maxRetries == 5

\* retryDelay = 3 * time.Second, in seconds
retryDelay == 3

\* How many connections the feed is allowed to open.
MaxConns == 2

\* How many frames the feed delivers in all.
MaxFrames == 3

\* The number of accepted Update calls explored: enough for two evictions.
MaxUpdates == windowSize + 2

\* len(rb.data)
DataLen == windowSize * 2

Symbols == {"BTC-USD", "ETH-USD", "ETH-BTC"}

\* The calculator the callers of the calculator specifications work on.
Target == "BTC-USD"

Callers == {1, 2}

SeqCallers == {1}

NoOwner == 0

(***************************************************************************)
(* Exact rationals (math/big.Rat): a numerator and a positive denominator  *)
(* in lowest terms.                                                        *)
(***************************************************************************)
Abs(n) == IF n < 0 THEN 0 - n ELSE n

RECURSIVE GCD(_, _)
GCD(a, b) == IF b = 0 THEN a ELSE GCD(b, a % b)

Norm(n, d) ==
  LET g == GCD(Abs(n), d)
  IN [num |-> n \div g, den |-> d \div g]

\* The zero value of big.Rat (0/1).
Zero == [num |-> 0, den |-> 1]

\* A nil *big.Rat: Add's named results when nothing is evicted.
Nil == [num |-> 0, den |-> 0]

RatAdd(x, y) == Norm(x.num * y.den + y.num * x.den, x.den * y.den)

RatSub(x, y) == Norm(x.num * y.den - y.num * x.den, x.den * y.den)

RatMul(x, y) == Norm(x.num * y.num, x.den * y.den)

\* x.Cmp(y): -1, 0 or +1.
RatCmp(x, y) ==
  LET l == x.num * y.den
      r == y.num * x.den
  IN IF l < r THEN 0 - 1 ELSE IF l = r THEN 0 ELSE 1

\* z.Quo(x, y); Quo panics ("division by zero") on a zero divisor, which the
\* nil result stands for.
RatQuo(x, y) ==
  IF y.num = 0 THEN Nil
  ELSE IF y.num < 0
    THEN Norm(0 - (x.num * y.den), x.den * (0 - y.num))
    ELSE Norm(x.num * y.den, x.den * y.num)

(***************************************************************************)
(* Decimal strings, as sequences of one-character strings.                 *)
(***************************************************************************)
Digits == {"0", "1", "2", "3", "4", "5", "6", "7", "8", "9"}

DigitChars == <<"0", "1", "2", "3", "4", "5", "6", "7", "8", "9">>

DigitVal(c) == (CHOOSE i \in 1..10 : DigitChars[i] = c) - 1

IsDigits(s) == \A i \in 1..Len(s) : s[i] \in Digits

RECURSIVE DigitsVal(_)
DigitsVal(s) ==
  IF s = <<>> THEN 0
  ELSE DigitsVal(SubSeq(s, 1, Len(s) - 1)) * 10 + DigitVal(s[Len(s)])

RECURSIVE Pow10(_)
Pow10(n) == IF n = 0 THEN 1 ELSE 10 * Pow10(n - 1)

\* nat.utoa(10): the decimal digits of n >= 0.
RECURSIVE Utoa(_)
Utoa(n) ==
  IF n < 10 THEN <<DigitChars[n + 1]>>
  ELSE Utoa(n \div 10) \o <<DigitChars[(n % 10) + 1]>>

RECURSIVE Zeros(_)
Zeros(n) == IF n <= 0 THEN <<>> ELSE <<"0">> \o Zeros(n - 1)

\* new(big.Rat).SetString(s) on strings of sign, digits and a decimal point
\* (no fraction bar, no exponent): (value, ok).
SetString(s) ==
  LET signed == Len(s) > 0 /\ s[1] \in {"-", "+"}
      neg == Len(s) > 0 /\ s[1] = "-"
      body == IF signed THEN Tail(s) ELSE s
      dots == {i \in 1..Len(body) : body[i] = "."}
      dot == IF dots = {} THEN Len(body) + 1 ELSE CHOOSE i \in dots : TRUE
      ip == SubSeq(body, 1, dot - 1)
      fp == SubSeq(body, dot + 1, Len(body))
      ok == /\ Cardinality(dots) <= 1
            /\ IsDigits(ip)
            /\ IsDigits(fp)
            /\ Len(ip) + Len(fp) >= 1
      mant == DigitsVal(ip \o fp)
  IN IF ok
       THEN [ok |-> TRUE,
             rat |-> Norm(IF neg THEN 0 - mant ELSE mant, Pow10(Len(fp)))]
       ELSE [ok |-> FALSE, rat |-> Nil]

\* x.FloatString(prec): x in decimal with prec fractional digits, the last
\* digit rounded to nearest, halves away from zero.
FloatString(x, prec) ==
  LET a == Abs(x.num)
      b == x.den
      p == Pow10(prec)
      q0 == a \div b
      r0 == ((a % b) * p) \div b
      r2 == ((a % b) * p) % b
      up == b <= r2 + r2
      r1 == IF up THEN r0 + 1 ELSE r0
      carry == up /\ r1 >= p
      q == IF carry THEN q0 + 1 ELSE q0
      r == IF carry THEN r1 - p ELSE r1
      sign == IF x.num < 0 THEN <<"-">> ELSE <<>>
      rs == Utoa(r)
  IN IF b = 1
       THEN sign \o Utoa(a) \o <<".">> \o Zeros(prec)
       ELSE sign \o Utoa(q) \o <<".">> \o Zeros(prec - Len(rs)) \o rs

(***************************************************************************)
(* RingBuffer                                                              *)
(***************************************************************************)
EmptyBuffer ==
  [data |-> [i \in 0..(DataLen - 1) |-> Zero], start |-> 0, count |-> 0]

\* Add with the full test against len(rb.data) instead of windowSize.
RbAddFullAtDataLen(rb, price, size) ==
  LET full == rb.count = DataLen
      start1 == IF full THEN (rb.start + 2) % DataLen ELSE rb.start
      count1 == IF full THEN rb.count ELSE rb.count + 1
      pos == (start1 + (count1 - 1) * 2) % DataLen
  IN [rb |-> [data |-> [rb.data EXCEPT ![pos] = price, ![pos + 1] = size],
              start |-> start1,
              count |-> count1],
      oldPrice |-> IF full THEN rb.data[rb.start] ELSE Nil,
      oldSize |-> IF full THEN rb.data[rb.start + 1] ELSE Nil,
      removed |-> full]

\* Add with the write position taken before start is advanced.
RbAddStalePos(rb, price, size) ==
  LET full == rb.count = windowSize
      start1 == IF full THEN (rb.start + 2) % DataLen ELSE rb.start
      count1 == IF full THEN rb.count ELSE rb.count + 1
      pos == (rb.start + (count1 - 1) * 2) % DataLen
  IN [rb |-> [data |-> [rb.data EXCEPT ![pos] = price, ![pos + 1] = size],
              start |-> start1,
              count |-> count1],
      oldPrice |-> IF full THEN rb.data[rb.start] ELSE Nil,
      oldSize |-> IF full THEN rb.data[rb.start + 1] ELSE Nil,
      removed |-> full]

\* Add with the evicted entry read after start is advanced.
RbAddReadsAfterAdvance(rb, price, size) ==
  LET full == rb.count = windowSize
      start1 == IF full THEN (rb.start + 2) % DataLen ELSE rb.start
      count1 == IF full THEN rb.count ELSE rb.count + 1
      pos == (start1 + (count1 - 1) * 2) % DataLen
  IN [rb |-> [data |-> [rb.data EXCEPT ![pos] = price, ![pos + 1] = size],
              start |-> start1,
              count |-> count1],
      oldPrice |-> IF full THEN rb.data[start1] ELSE Nil,
      oldSize |-> IF full THEN rb.data[start1 + 1] ELSE Nil,
      removed |-> full]

\* rb.Add(price, size): the buffer after the call and the three results.
RbAdd(rb, price, size) ==
  LET full == rb.count = windowSize
      start1 == IF full THEN (rb.start + 2) % DataLen ELSE rb.start
      count1 == IF full THEN rb.count ELSE rb.count + 1
      pos == (start1 + (count1 - 1) * 2) % DataLen
  IN [rb |-> [data |-> [rb.data EXCEPT ![pos] = price, ![pos + 1] = size],
              start |-> start1,
              count |-> count1],
      oldPrice |-> IF full THEN rb.data[rb.start] ELSE Nil,
      oldSize |-> IF full THEN rb.data[rb.start + 1] ELSE Nil,
      removed |-> full]

(***************************************************************************)
(* VWAPCalculator                                                          *)
(***************************************************************************)
NewVWAPCalculator ==
  [buffer |-> EmptyBuffer, totalPV |-> Zero, totalVolume |-> Zero,
   mu |-> NoOwner]

\* The check with < 0 in place of <= 0: a zero price or size passes.
ValidTradeAllowsZero(priceStr, sizeStr) ==
  LET p == SetString(priceStr)
      s == SetString(sizeStr)
  IN ~(~p.ok \/ ~s.ok \/ RatCmp(p.rat, Zero) < 0 \/ RatCmp(s.rat, Zero) < 0)

\* The check of Update's arguments: both parse and both are positive.
ValidTrade(priceStr, sizeStr) ==
  LET p == SetString(priceStr)
      s == SetString(sizeStr)
  IN ~(~p.ok \/ ~s.ok \/ RatCmp(p.rat, Zero) <= 0 \/ RatCmp(s.rat, Zero) <= 0)

\* The eviction that forgets the volume.
SubEvictedPVOnly(v, oldPrice, oldSize) ==
  [v EXCEPT !.totalPV = RatSub(v.totalPV, RatMul(oldPrice, oldSize))]

\* if removed { totalPV -= oldPrice*oldSize; totalVolume -= oldSize }
SubEvicted(v, oldPrice, oldSize) ==
  [v EXCEPT !.totalPV = RatSub(v.totalPV, RatMul(oldPrice, oldSize)),
            !.totalVolume = RatSub(v.totalVolume, oldSize)]

\* The addition that adds the price alone to totalPV.
AddTradeUnweighted(v, price, size) ==
  [v EXCEPT !.totalPV = RatAdd(v.totalPV, price),
            !.totalVolume = RatAdd(v.totalVolume, size)]

\* totalPV += price*size; totalVolume += size
AddTrade(v, price, size) ==
  [v EXCEPT !.totalPV = RatAdd(v.totalPV, RatMul(price, size)),
            !.totalVolume = RatAdd(v.totalVolume, size)]

\* What a caller sees instead of a result when the call panics.
Panic == <<"panic">>

\* Calculate without the test for a zero totalVolume.
CalculateNoZeroCheck(v) ==
  LET vwap == RatQuo(v.totalPV, v.totalVolume)
  IN IF vwap = Nil THEN Panic ELSE FloatString(vwap, 4)

\* The value Calculate returns for calculator v.
CalculateResult(v) ==
  IF RatCmp(v.totalVolume, Zero) = 0
    THEN <<"0">>
    ELSE LET vwap == RatQuo(v.totalPV, v.totalVolume)
         IN IF vwap = Nil THEN Panic ELSE FloatString(vwap, 4)

(***************************************************************************)
(* The arguments the callers pass to Update: (price, size) strings.        *)
(***************************************************************************)
ValidInputs ==
  { << <<"1", "0">>, <<"1">> >>,
    << <<"2", "0">>, <<"1">> >>,
    << <<"3", "0">>, <<"1">> >>,
    << <<"4", "0">>, <<"1">> >>,
    << <<"0", ".", "5">>, <<"3">> >> }

InvalidInputs ==
  { << <<"0">>, <<"1">> >>,
    << <<"1", "0">>, <<"0">> >>,
    << <<"-", "5">>, <<"-", "2">> >>,
    << <<"1", "0">>, <<"-", "1">> >>,
    << <<"x">>, <<"1">> >>,
    << <<"1", "0">>, <<>> >> }

Inputs == ValidInputs \cup InvalidInputs

\* The arguments drawn when several callers run at once.
ConcInputs ==
  { << <<"1", "0">>, <<"1">> >>,
    << <<"2", "0">>, <<"1">> >>,
    << <<"0", ".", "5">>, <<"3">> >>,
    << <<"0">>, <<"1">> >>,
    << <<"1", "0">>, <<"-", "1">> >> }

\* The arguments drawn when the waiting for the mutex is followed to its
\* end: one trade that is accepted, one that is rejected.
LockInputs ==
  { << <<"1", "0">>, <<"1">> >>,
    << <<"0">>, <<"1">> >> }

VARIABLES
  calculators,  \* the registry: symbol -> VWAPCalculator
  frame,        \* caller -> the locals and position of its call in progress
  hist,         \* symbol -> the (price, size) arguments of buffer.Add, in order
  accepted,     \* input -> how many Update calls with it have returned nil
  rejected,     \* whether an Update call has returned an error
  budget,       \* how many more valid Update calls are explored
  inputs,       \* the (price, size) arguments the callers draw from
  mainPc,       \* where main is in its connect loop
  retryCount,   \* main's retryCount
  conn,         \* the connection of the current iteration: none, open, closed
  readerPc,     \* where the readMessages goroutine is
  pending,      \* the frame readMessages is sending on messageChan
  cur,          \* the frame handleConnection has received
  out,          \* the lines printed: (product, VWAP)
  failRun,      \* how many connects have failed in a row
  totalFails,   \* how many connects have failed in all
  connBudget,   \* how many more connections may be opened
  frameBudget,  \* how many more frames the feed delivers
  log,          \* kind of log entry -> how many the logger has written
  calls,        \* what processMessage has called -> how many times
  locks,        \* symbol -> how many times processMessage took its mutex
  subsSent,     \* how many subscription requests this connection was sent
  subscribed,   \* how this connection's subscription write ended
  readLog,      \* the frames ReadMessage has returned on this connection
  procLog,      \* the frames handed to processMessage on this connection
  anyFailRun,   \* connect, subscribe and read failures since the last frame
  slept,        \* the seconds main has spent in time.Sleep
  openConns     \* how many connections are dialled and not closed

callVars == <<frame, accepted, rejected, budget, inputs>>

feedVars == <<mainPc, retryCount, conn, readerPc, pending, cur, out, failRun,
              totalFails, connBudget, frameBudget, log, calls, locks,
              subsSent, subscribed, readLog, procLog, anyFailRun, slept,
              openConns>>

vars == <<calculators, hist, callVars, feedVars>>

\* A frame of the feed, as json.Unmarshal sees it: whether it decodes into
\* a Trade, and the Trade's fields.
NoFrame ==
  [wellFormed |-> FALSE, type |-> "none", product_id |-> "",
   price |-> <<>>, size |-> <<>>]

Malformed ==
  [wellFormed |-> FALSE, type |-> "", product_id |-> "",
   price |-> <<>>, size |-> <<>>]

Match(product, price, size) ==
  [wellFormed |-> TRUE, type |-> "match", product_id |-> product,
   price |-> price, size |-> size]

FeedFrames ==
  { Malformed,
    [wellFormed |-> TRUE, type |-> "subscriptions", product_id |-> "",
     price |-> <<>>, size |-> <<>>],
    Match("LTC-USD", <<"1", "0">>, <<"1">>),
    Match("ETH-USD", <<"0">>, <<"1">>),
    Match("ETH-USD", <<"0", ".", "5">>, <<"3">>) }

\* The entries the logger writes, by the place that writes them: lines 153,
\* 136, 145, 233, 199, 207, 211 and 216.
LogKinds ==
  {"connecting", "maxRetries", "handlingFailed", "subscribed", "decodeError",
   "receivedTrade", "unknownProduct", "updateFailed"}

\* What processMessage calls: the map lookup of line 209, Update, Calculate.
CallKinds == {"lookup", "Update", "Calculate"}

\* One more entry of kind k in the count b.
Counted(b, k) == [b EXCEPT ![k] = @ + 1]

IdleFrame ==
  [pc |-> "idle", priceStr |-> <<>>, sizeStr |-> <<>>, price |-> Nil,
   size |-> Nil, oldPrice |-> Nil, oldSize |-> Nil, removed |-> FALSE,
   err |-> FALSE, ret |-> <<>>]

InitCalc ==
  /\ calculators = [s \in Symbols |-> NewVWAPCalculator]
  /\ frame = [c \in Callers |-> IdleFrame]
  /\ hist = [s \in Symbols |-> <<>>]
  /\ accepted = [t \in Inputs |-> 0]
  /\ rejected = FALSE

\* main before its first connect: retryCount := 0, no connection.
InitMain ==
  /\ mainPc = "connect"
  /\ retryCount = 0
  /\ conn = "none"
  /\ readerPc = "none"
  /\ pending = NoFrame
  /\ cur = NoFrame
  /\ out = <<>>
  /\ failRun = 0
  /\ totalFails = 0
  /\ log = [k \in LogKinds |-> 0]
  /\ calls = [k \in CallKinds |-> 0]
  /\ locks = [s \in Symbols |-> 0]
  /\ subsSent = 0
  /\ subscribed = "no"
  /\ readLog = <<>>
  /\ procLog = <<>>
  /\ anyFailRun = 0
  /\ slept = 0
  /\ openConns = 0

\* The calculator on its own: the feed opens no connection.
NoFeed == InitMain /\ connBudget = 0 /\ frameBudget = 0

Init == InitCalc /\ NoFeed /\ budget = MaxUpdates /\ inputs = Inputs

InitConc == InitCalc /\ NoFeed /\ budget = MaxUpdates /\ inputs = ConcInputs

\* main: the calculators are reached through the feed alone.
InitFeed ==
  /\ InitCalc
  /\ InitMain
  /\ budget = 0
  /\ inputs = {}
  /\ connBudget = MaxConns
  /\ frameBudget = MaxFrames

\* A Lock that never waits.
CanLockAlways(v) == TRUE

\* v.mu.Lock() returns only while no caller holds the mutex.
CanLock(v) == v.mu = NoOwner

\* Update, lines 68-73: parse and check the arguments, before the lock.
UpdateEnter(c) ==
  /\ frame[c].pc = "idle"
  /\ \E t \in inputs :
       IF ValidTrade(t[1], t[2])
         THEN /\ budget > 0
              /\ budget' = budget - 1
              /\ rejected' = rejected
              /\ frame' = [frame EXCEPT ![c] =
                   [IdleFrame EXCEPT !.pc = "lock",
                                     !.priceStr = t[1], !.sizeStr = t[2],
                                     !.price = SetString(t[1]).rat,
                                     !.size = SetString(t[2]).rat]]
         ELSE /\ budget' = budget
              /\ rejected' = TRUE
              /\ frame' = [frame EXCEPT ![c] =
                   [IdleFrame EXCEPT !.pc = "uret", !.err = TRUE,
                                     !.priceStr = t[1], !.sizeStr = t[2]]]
  /\ UNCHANGED <<calculators, hist, accepted, inputs, feedVars>>

\* Update, line 75: v.mu.Lock()
UpdateLock(c) ==
  /\ frame[c].pc = "lock"
  /\ CanLock(calculators[Target])
  /\ calculators' = [calculators EXCEPT ![Target].mu = c]
  /\ frame' = [frame EXCEPT ![c].pc = "add"]
  /\ UNCHANGED <<hist, accepted, rejected, budget, inputs, feedVars>>

\* Update, line 78: oldPrice, oldSize, removed := v.buffer.Add(price, size)
UpdateAdd(c) ==
  /\ frame[c].pc = "add"
  /\ LET r == RbAdd(calculators[Target].buffer, frame[c].price, frame[c].size)
     IN /\ calculators' = [calculators EXCEPT ![Target].buffer = r.rb]
        /\ frame' = [frame EXCEPT ![c].pc = IF r.removed THEN "sub" ELSE "sum",
                                  ![c].oldPrice = r.oldPrice,
                                  ![c].oldSize = r.oldSize,
                                  ![c].removed = r.removed]
  /\ hist' = [hist EXCEPT ![Target] =
                Append(@, <<frame[c].price, frame[c].size>>)]
  /\ UNCHANGED <<accepted, rejected, budget, inputs, feedVars>>

\* Update, lines 79-82: the evicted entry leaves the running sums.
UpdateSub(c) ==
  /\ frame[c].pc = "sub"
  /\ calculators' = [calculators EXCEPT ![Target] =
                       SubEvicted(@, frame[c].oldPrice, frame[c].oldSize)]
  /\ frame' = [frame EXCEPT ![c].pc = "sum"]
  /\ UNCHANGED <<hist, accepted, rejected, budget, inputs, feedVars>>

\* Update, lines 83-84: the new trade enters the running sums.
UpdateSum(c) ==
  /\ frame[c].pc = "sum"
  /\ calculators' = [calculators EXCEPT ![Target] =
                       AddTrade(@, frame[c].price, frame[c].size)]
  /\ frame' = [frame EXCEPT ![c].pc = "unlock"]
  /\ UNCHANGED <<hist, accepted, rejected, budget, inputs, feedVars>>

\* Update, lines 85 and 76: return nil, and the deferred v.mu.Unlock()
UpdateUnlock(c) ==
  /\ frame[c].pc = "unlock"
  /\ calculators' = [calculators EXCEPT ![Target].mu = NoOwner]
  /\ frame' = [frame EXCEPT ![c].pc = "uret", ![c].err = FALSE]
  /\ accepted' = [accepted EXCEPT
                    ![<<frame[c].priceStr, frame[c].sizeStr>>] = @ + 1]
  /\ UNCHANGED <<hist, rejected, budget, inputs, feedVars>>

\* Calculate is called.
CalculateEnter(c) ==
  /\ frame[c].pc = "idle"
  /\ frame' = [frame EXCEPT ![c].pc = "clock"]
  /\ UNCHANGED <<calculators, hist, accepted, rejected, budget, inputs, feedVars>>

\* Calculate, line 89: v.mu.Lock()
CalculateLock(c) ==
  /\ frame[c].pc = "clock"
  /\ CanLock(calculators[Target])
  /\ calculators' = [calculators EXCEPT ![Target].mu = c]
  /\ frame' = [frame EXCEPT ![c].pc = "calc"]
  /\ UNCHANGED <<hist, accepted, rejected, budget, inputs, feedVars>>

\* Calculate, lines 92-96: the result from the running sums.
CalculateRead(c) ==
  /\ frame[c].pc = "calc"
  /\ frame' = [frame EXCEPT ![c].pc = "cunlock",
                            ![c].ret = CalculateResult(calculators[Target])]
  /\ UNCHANGED <<calculators, hist, accepted, rejected, budget, inputs, feedVars>>

\* A Calculate that returns with the mutex still held.
CalculateReturnsLocked(c) ==
  /\ frame[c].pc = "cunlock"
  /\ frame' = [frame EXCEPT ![c].pc = "cret"]
  /\ UNCHANGED <<calculators, hist, accepted, rejected, budget, inputs, feedVars>>

\* Calculate, line 90: the deferred v.mu.Unlock()
CalculateUnlock(c) ==
  /\ frame[c].pc = "cunlock"
  /\ calculators' = [calculators EXCEPT ![Target].mu = NoOwner]
  /\ frame' = [frame EXCEPT ![c].pc = "cret"]
  /\ UNCHANGED <<hist, accepted, rejected, budget, inputs, feedVars>>

\* The caller takes the result and is free to call again.
Return(c) ==
  /\ frame[c].pc \in {"uret", "cret"}
  /\ frame' = [frame EXCEPT ![c] = IdleFrame]
  /\ UNCHANGED <<calculators, hist, accepted, rejected, budget, inputs, feedVars>>

Step(c) ==
  \/ UpdateEnter(c)
  \/ UpdateLock(c)
  \/ UpdateAdd(c)
  \/ UpdateSub(c)
  \/ UpdateSum(c)
  \/ UpdateUnlock(c)
  \/ CalculateEnter(c)
  \/ CalculateLock(c)
  \/ CalculateRead(c)
  \/ CalculateUnlock(c)
  \/ Return(c)

\* One caller: Update and Calculate calls one after the other.
Next == \E c \in SeqCallers : Step(c)

Spec == Init /\ [][Next]_vars

\* Several callers at once on the same calculator.
NextConc == \E c \in Callers : Step(c)

SpecConc == InitConc /\ [][NextConc]_vars

\* Several callers, followed until every call has returned.
InitLock == InitCalc /\ NoFeed /\ budget = MaxUpdates /\ inputs = LockInputs

\* A goroutine inside Update or Calculate goes on running, and one blocked
\* in Lock gets the mutex if it is free again and again: sync.Mutex hands a
\* starving waiter the mutex.
LockFairness ==
  \A c \in Callers :
    /\ WF_vars(UpdateAdd(c))
    /\ WF_vars(UpdateSub(c))
    /\ WF_vars(UpdateSum(c))
    /\ WF_vars(UpdateUnlock(c))
    /\ WF_vars(CalculateRead(c))
    /\ WF_vars(CalculateUnlock(c))
    /\ SF_vars(UpdateLock(c))
    /\ SF_vars(CalculateLock(c))

SpecLock == InitLock /\ [][NextConc]_vars /\ LockFairness

(***************************************************************************)
(* main, handleConnection, readMessages and processMessage                 *)
(***************************************************************************)
\* What Update does to calculator v, lock to unlock, and what it returns.
UpdateResult(v, priceStr, sizeStr) ==
  IF ~ValidTrade(priceStr, sizeStr)
    THEN [err |-> TRUE, v |-> v]
    ELSE LET price == SetString(priceStr).rat
             size == SetString(sizeStr).rat
             r == RbAdd(v.buffer, price, size)
             v1 == [v EXCEPT !.buffer = r.rb]
             v2 == IF r.removed THEN SubEvicted(v1, r.oldPrice, r.oldSize)
                   ELSE v1
         IN [err |-> FALSE, v |-> AddTrade(v2, price, size)]

\* The cap tested with >= in place of >.
ExhaustedAtCap(rc) == rc >= maxRetries

\* retryCount > maxRetries
Exhausted(rc) == rc > maxRetries

\* A successful connect that leaves retryCount as it was.
RetryCountKept(rc) == rc

\* retryCount = 0 after a successful connect
RetryCountAfterConnect(rc) == 0

\* A loop that goes on after "Max connection retries" is logged.
CanConnectAfterFailed(pc) == pc \in {"connect", "failed"}

\* main reaches connectWebSocket at the top of its loop only: the return of
\* line 137 leaves the loop for good.
CanConnect(pc) == pc = "connect"

\* A handleConnection that goes on into its loop whatever subscribe returns.
MainIgnoresSubscribeError(ok) == "select"

\* handleConnection, lines 163-165 and 172: into the select loop after a
\* subscription that was written, back to main with the error otherwise.
MainAfterSubscribe(ok) == IF ok THEN "select" ELSE "close"

\* readMessages started before the subscription is written.
ReaderStartedBeforeSubscribe(ok, rp) == "read"

\* handleConnection, lines 163-170: go readMessages runs only after subscribe
\* has returned nil.
ReaderAfterSubscribe(ok, rp) == IF ok THEN "read" ELSE rp

\* A send that does not wait for the receiver.
CanReadWhileSending(rp) == rp \in {"read", "sendMsg"}

\* readMessages, lines 186-193: ReadMessage is called again only after the
\* send on the unbuffered messageChan has been received.
CanRead(rp) == rp = "read"

\* json.Unmarshal returns nil.
Decoded(f) == f.wellFormed

\* A filter that lets every decoded frame through.
IsMatchAny(f) == TRUE

\* line 203: trade.Type != "match" returns.
IsMatch(f) == f.type = "match"

\* A lookup that falls back on the first calculator for an unknown product.
LookupDefault(calcs, product) ==
  IF product \in DOMAIN calcs
    THEN [exists |-> TRUE, key |-> product]
    ELSE [exists |-> TRUE, key |-> Target]

\* A registry whose symbols all share one calculator.
LookupShared(calcs, product) ==
  [exists |-> product \in DOMAIN calcs, key |-> Target]

\* line 209: calculator, exists := calculators[trade.ProductID]
Lookup(calcs, product) ==
  [exists |-> product \in DOMAIN calcs, key |-> product]

\* A processMessage that goes on to Calculate whatever Update returns.
AlwaysCalculate(err) == "calculate"

\* lines 215-220: return on an Update error, Calculate otherwise.
AfterUpdate(err) == IF err THEN "select" ELSE "calculate"

\* A retry that goes straight back to connectWebSocket.
RetryWithoutDelay(rc) == IF Exhausted(rc) THEN "failed" ELSE "connect"

\* main, lines 135-140: return once the retries are exhausted, Sleep and
\* continue otherwise.
MainAfterConnectFail(rc) == IF Exhausted(rc) THEN "failed" ELSE "sleepRetry"

\* main, lines 133-141: connectWebSocket logs and fails.
ConnectFail ==
  /\ CanConnect(mainPc)
  /\ retryCount' = retryCount + 1
  /\ mainPc' = MainAfterConnectFail(retryCount')
  /\ log' = IF Exhausted(retryCount')
              THEN Counted(Counted(log, "connecting"), "maxRetries")
              ELSE Counted(log, "connecting")
  /\ failRun' = failRun + 1
  /\ totalFails' = totalFails + 1
  /\ anyFailRun' = anyFailRun + 1
  /\ UNCHANGED <<slept, openConns>>
  /\ UNCHANGED <<calculators, hist, callVars, conn, readerPc, pending, cur,
                 out, connBudget, frameBudget, calls, locks, subsSent,
                 subscribed, readLog, procLog>>

\* main, lines 133 and 142: connectWebSocket logs and succeeds.
ConnectOk ==
  /\ CanConnect(mainPc)
  /\ connBudget > 0
  /\ connBudget' = connBudget - 1
  /\ retryCount' = RetryCountAfterConnect(retryCount)
  /\ conn' = "open"
  /\ readerPc' = "none"
  /\ mainPc' = "subscribe"
  /\ log' = Counted(log, "connecting")
  /\ failRun' = 0
  /\ subsSent' = 0
  /\ subscribed' = "no"
  /\ readLog' = <<>>
  /\ procLog' = <<>>
  /\ openConns' = openConns + 1
  /\ slept' = slept
  /\ UNCHANGED <<calculators, hist, callVars, pending, cur, out, totalFails,
                 frameBudget, calls, locks, anyFailRun>>

\* main, lines 139-140: time.Sleep(retryDelay); continue
SleepRetry ==
  /\ mainPc = "sleepRetry"
  /\ mainPc' = "connect"
  /\ slept' = slept + retryDelay
  /\ openConns' = openConns
  /\ UNCHANGED <<calculators, hist, callVars, retryCount, conn, readerPc,
                 pending, cur, out, failRun, totalFails, connBudget,
                 frameBudget, log, calls, locks, subsSent, subscribed,
                 readLog, procLog, anyFailRun>>

\* handleConnection, lines 163-170: subscribe writes the request; on
\* success it logs, the channels are made and readMessages is started.
Subscribe ==
  /\ mainPc = "subscribe"
  /\ subsSent' = subsSent + 1
  /\ \E ok \in BOOLEAN :
       /\ mainPc' = MainAfterSubscribe(ok)
       /\ readerPc' = ReaderAfterSubscribe(ok, readerPc)
       /\ subscribed' = IF ok THEN "ok" ELSE "failed"
       /\ log' = IF ok THEN Counted(log, "subscribed") ELSE log
       /\ anyFailRun' = IF ok THEN anyFailRun ELSE anyFailRun + 1
  /\ UNCHANGED <<slept, openConns>>
  /\ UNCHANGED <<calculators, hist, callVars, retryCount, conn, pending, cur,
                 out, failRun, totalFails, connBudget, frameBudget, calls,
                 locks, readLog, procLog>>

\* readMessages, lines 187-191: conn.ReadMessage() returns a frame or an
\* error.
ReaderRead ==
  /\ CanRead(readerPc)
  /\ \/ /\ frameBudget > 0
        /\ frameBudget' = frameBudget - 1
        /\ \E f \in FeedFrames :
             /\ pending' = f
             /\ readLog' = Append(readLog, f)
        /\ readerPc' = "sendMsg"
        /\ anyFailRun' = 0
     \/ /\ readerPc' = "sendErr"
        /\ anyFailRun' = anyFailRun + 1
        /\ UNCHANGED <<pending, frameBudget, readLog>>
  /\ UNCHANGED <<slept, openConns>>
  /\ UNCHANGED <<calculators, hist, callVars, mainPc, retryCount, conn, cur,
                 out, failRun, totalFails, connBudget, log, calls, locks,
                 subsSent, subscribed, procLog>>

\* lines 192 and 174: the frame passes over the unbuffered messageChan.
ReceiveMessage ==
  /\ mainPc = "select"
  /\ readerPc = "sendMsg"
  /\ cur' = pending
  /\ pending' = NoFrame
  /\ readerPc' = "read"
  /\ mainPc' = "process"
  /\ UNCHANGED <<slept, openConns>>
  /\ UNCHANGED <<calculators, hist, callVars, retryCount, conn, out, failRun,
                 totalFails, connBudget, frameBudget, log, calls, locks,
                 subsSent, subscribed, readLog, procLog, anyFailRun>>

\* processMessage, lines 196-218, called at line 175: decode, filter, look
\* the calculator up and Update it.
ProcessMessage ==
  /\ mainPc = "process"
  /\ procLog' = Append(procLog, cur)
  /\ IF ~Decoded(cur)
       THEN /\ log' = Counted(log, "decodeError")
            /\ mainPc' = "select"
            /\ cur' = NoFrame
            /\ UNCHANGED <<calculators, hist, calls, locks>>
       ELSE IF ~IsMatch(cur)
         THEN /\ mainPc' = "select"
              /\ cur' = NoFrame
              /\ UNCHANGED <<calculators, hist, log, calls, locks>>
         ELSE LET l == Lookup(calculators, cur.product_id)
              IN IF ~l.exists
                   THEN /\ log' = Counted(Counted(log, "receivedTrade"),
                                          "unknownProduct")
                        /\ calls' = Counted(calls, "lookup")
                        /\ mainPc' = "select"
                        /\ cur' = NoFrame
                        /\ UNCHANGED <<calculators, hist, locks>>
                   ELSE LET v == calculators[l.key]
                            u == UpdateResult(v, cur.price, cur.size)
                        IN /\ CanLock(v)
                           /\ calculators' =
                                [calculators EXCEPT ![l.key] = u.v]
                           /\ calls' = Counted(Counted(calls, "lookup"),
                                               "Update")
                           /\ log' = IF u.err
                                       THEN Counted(Counted(log,
                                              "receivedTrade"), "updateFailed")
                                       ELSE Counted(log, "receivedTrade")
                           /\ hist' = IF u.err THEN hist
                                      ELSE [hist EXCEPT ![l.key] =
                                             Append(@,
                                               <<SetString(cur.price).rat,
                                                 SetString(cur.size).rat>>)]
                           /\ locks' = IF u.err THEN locks
                                       ELSE Counted(locks, l.key)
                           /\ mainPc' = AfterUpdate(u.err)
                           /\ cur' = IF mainPc' = "select" THEN NoFrame
                                     ELSE cur
  /\ UNCHANGED <<slept, openConns>>
  /\ UNCHANGED <<callVars, retryCount, conn, readerPc, pending, out, failRun,
                 totalFails, connBudget, frameBudget, subsSent, subscribed,
                 readLog, anyFailRun>>

\* processMessage, lines 220-221: Calculate, and the line printed.
ProcessCalculate ==
  /\ mainPc = "calculate"
  /\ LET l == Lookup(calculators, cur.product_id)
         v == calculators[l.key]
     IN /\ CanLock(v)
        /\ out' = Append(out, <<cur.product_id, CalculateResult(v)>>)
        /\ locks' = Counted(locks, l.key)
  /\ calls' = Counted(calls, "Calculate")
  /\ mainPc' = "select"
  /\ cur' = NoFrame
  /\ UNCHANGED <<slept, openConns>>
  /\ UNCHANGED <<calculators, hist, callVars, retryCount, conn, readerPc,
                 pending, failRun, totalFails, connBudget, frameBudget, log,
                 subsSent, subscribed, readLog, procLog, anyFailRun>>

\* lines 189 and 176-177: the error passes over errChan, handleConnection
\* returns it, and readMessages returns, closing both channels. The two
\* closes touch channels that no one else holds any more, so they are taken
\* together with the hand-over.
ReceiveError ==
  /\ mainPc = "select"
  /\ readerPc = "sendErr"
  /\ readerPc' = "done"
  /\ mainPc' = "close"
  /\ UNCHANGED <<slept, openConns>>
  /\ UNCHANGED <<calculators, hist, callVars, retryCount, conn, pending, cur,
                 out, failRun, totalFails, connBudget, frameBudget, log,
                 calls, locks, subsSent, subscribed, readLog, procLog,
                 anyFailRun>>

\* A main that logs the error of handleConnection and leaves the
\* connection as it is.
CloseConnSkipped ==
  /\ mainPc = "close"
  /\ log' = Counted(log, "handlingFailed")
  /\ mainPc' = "sleepReconnect"
  /\ UNCHANGED <<calculators, hist, callVars, retryCount, conn, readerPc,
                 pending, cur, out, failRun, totalFails, connBudget,
                 frameBudget, calls, locks, subsSent, subscribed, readLog,
                 procLog, anyFailRun, slept, openConns>>

\* main, lines 144-147: the error of handleConnection is logged, then
\* conn.Close()
CloseConn ==
  /\ mainPc = "close"
  /\ conn' = "closed"
  /\ log' = Counted(log, "handlingFailed")
  /\ mainPc' = "sleepReconnect"
  /\ openConns' = openConns - 1
  /\ slept' = slept
  /\ UNCHANGED <<calculators, hist, callVars, retryCount, readerPc, pending,
                 cur, out, failRun, totalFails, connBudget, frameBudget,
                 calls, locks, subsSent, subscribed, readLog, procLog,
                 anyFailRun>>

\* main, line 148: time.Sleep(retryDelay), then the next iteration.
SleepReconnect ==
  /\ mainPc = "sleepReconnect"
  /\ mainPc' = "connect"
  /\ slept' = slept + retryDelay
  /\ openConns' = openConns
  /\ UNCHANGED <<calculators, hist, callVars, retryCount, conn, readerPc,
                 pending, cur, out, failRun, totalFails, connBudget,
                 frameBudget, log, calls, locks, subsSent, subscribed,
                 readLog, procLog, anyFailRun>>

NextFeed ==
  \/ ConnectFail
  \/ ConnectOk
  \/ SleepRetry
  \/ Subscribe
  \/ ReaderRead
  \/ ReceiveMessage
  \/ ProcessMessage
  \/ ProcessCalculate
  \/ ReceiveError
  \/ CloseConn
  \/ SleepReconnect

SpecFeed == InitFeed /\ [][NextFeed]_vars

(***************************************************************************)
(* What the claims speak of, stated from the history of accepted trades.   *)
(***************************************************************************)
Min(a, b) == IF a < b THEN a ELSE b

\* The last min(Len(h), windowSize) entries of h.
LastN(h) == SubSeq(h, Len(h) - Min(Len(h), windowSize) + 1, Len(h))

RECURSIVE SumPV(_)
SumPV(h) ==
  IF h = <<>> THEN Zero
  ELSE RatAdd(SumPV(Tail(h)), RatMul(Head(h)[1], Head(h)[2]))

RECURSIVE SumV(_)
SumV(h) == IF h = <<>> THEN Zero ELSE RatAdd(SumV(Tail(h)), Head(h)[2])

\* sum(price*size) / sum(size) over the entries of h (h not empty).
Ratio(h) == RatQuo(SumPV(h), SumV(h))

\* The entries the buffer retains: count entries from start, wrapping around.
BufferEntries(rb) ==
  [i \in 1..rb.count |->
    <<rb.data[(rb.start + 2 * (i - 1)) % DataLen],
      rb.data[(rb.start + 2 * (i - 1) + 1) % DataLen]>>]

\* The running sums are those of the retained entries.
Consistent(v) ==
  /\ v.totalPV = SumPV(BufferEntries(v.buffer))
  /\ v.totalVolume = SumV(BufferEntries(v.buffer))

\* The number a decimal string denotes.
Value(str) == SetString(str).rat

Parsed(t) == <<SetString(t[1]).rat, SetString(t[2]).rat>>

NonPositive(str) == SetString(str).ok /\ SetString(str).rat.num <= 0

InUpdate(c) == frame[c].pc \in {"lock", "add", "sub", "sum", "unlock"}

InCritical(c) ==
  frame[c].pc \in {"add", "sub", "sum", "unlock", "calc", "cunlock"}

Quiescent == \A c \in Callers : frame[c].pc \in {"idle", "uret", "cret"}

RECURSIVE SumOver(_, _)
SumOver(f, S) ==
  IF S = {} THEN 0
  ELSE LET x == CHOOSE y \in S : TRUE IN f[x] + SumOver(f, S \ {x})

AcceptedCount == SumOver(accepted, Inputs)

Occurrences(h, e) == Cardinality({i \in 1..Len(h) : h[i] = e})

(***************************************************************************)
(* C1. After k >= 1 accepted updates Calculate returns the ratio           *)
(* sum(price*size)/sum(size) over the last min(k, N) of them, rounded to   *)
(* four fractional digits: the decimal string FloatString(4) gives, which  *)
(* is within 0.00005 of the ratio. Older updates have no part in it.       *)
(***************************************************************************)
C1_CalculateIsRoundedWindowRatio ==
  \A c \in Callers :
    (frame[c].pc = "cunlock" /\ Len(hist[Target]) >= 1) =>
      LET ratio == Ratio(LastN(hist[Target]))
          diff == RatSub(Value(frame[c].ret), ratio)
      IN /\ frame[c].ret = FloatString(ratio, 4)
         /\ SetString(frame[c].ret).ok
         /\ Abs(diff.num) * 20000 <= diff.den

\* C1 as stated: the value returned is the exact ratio.
C1_CalculateIsExactRatio ==
  \A c \in Callers :
    (frame[c].pc = "cunlock" /\ Len(hist[Target]) >= 1) =>
      /\ SetString(frame[c].ret).ok
      /\ RatCmp(Value(frame[c].ret), Ratio(LastN(hist[Target]))) = 0

\* Calculate has run after an eviction, on a ratio four digits cannot hold.
C1_Witness ==
  \E c \in Callers :
    /\ frame[c].pc = "cunlock"
    /\ Len(hist[Target]) > windowSize
    /\ frame[c].ret = FloatString(Ratio(LastN(hist[Target])), 4)
    /\ RatCmp(Value(frame[c].ret), Ratio(LastN(hist[Target]))) # 0
    /\ Ratio(LastN(hist[Target])) # Ratio(hist[Target])

(***************************************************************************)
(* C2. A call of Update with a price or a size that is not positive        *)
(* returns an error, and the step that rejects a call leaves every         *)
(* calculator (buffer data, start, count, totalPV, totalVolume) and so the *)
(* value of Calculate as they were.                                        *)
(***************************************************************************)
C2_RejectedUpdateChangesNothing ==
  /\ [](\A c \in Callers :
         (frame[c].pc \in {"lock", "add", "sub", "sum", "unlock", "uret"}
            /\ (NonPositive(frame[c].priceStr) \/ NonPositive(frame[c].sizeStr)))
           => (frame[c].pc = "uret" /\ frame[c].err))
  /\ [][\A c \in Callers :
         (frame[c].pc = "idle" /\ frame'[c].pc = "uret" /\ frame'[c].err) =>
           /\ calculators' = calculators
           /\ CalculateResult(calculators'[Target])
                = CalculateResult(calculators[Target])
           /\ hist' = hist]_vars

\* An Update with both arguments negative was rejected on a full window.
C2_Witness ==
  \E c \in Callers :
    /\ frame[c].pc = "uret"
    /\ frame[c].err
    /\ NonPositive(frame[c].priceStr)
    /\ NonPositive(frame[c].sizeStr)
    /\ Len(hist[Target]) > windowSize

(***************************************************************************)
(* C3. When no call is in progress after concurrent Update calls, the      *)
(* buffer holds min(A, N) entries for A accepted calls, every accepted     *)
(* call was inserted exactly once, the running sums are those recomputed   *)
(* from the buffer, and the value of Calculate is not negative.            *)
(***************************************************************************)
C3_ConcurrentUpdatesAllCounted ==
  Quiescent =>
    LET v == calculators[Target]
    IN /\ v.buffer.count = Min(AcceptedCount, windowSize)
       /\ Len(hist[Target]) = AcceptedCount
       /\ \A t \in Inputs :
            ValidTrade(t[1], t[2]) =>
              Occurrences(hist[Target], Parsed(t)) = accepted[t]
       /\ BufferEntries(v.buffer) = LastN(hist[Target])
       /\ Consistent(v)
       /\ SetString(CalculateResult(v)).ok
       /\ Value(CalculateResult(v)).num >= 0

\* Both callers have had updates accepted, more than N in all.
C3_Witness ==
  /\ Quiescent
  /\ AcceptedCount > windowSize
  /\ \A c \in Callers : frame[c].pc = "uret" /\ ~frame[c].err

(***************************************************************************)
(* C4. Whenever nobody holds the calculator's mutex, totalPV and           *)
(* totalVolume are the sums of price*size and of size over the count       *)
(* entries the buffer retains from start.                                  *)
(***************************************************************************)
C4_SumsMatchBufferWhenUnlocked ==
  \A s \in Symbols :
    calculators[s].mu = NoOwner => Consistent(calculators[s])

\* The mutex is free after an eviction and after a rejected call.
C4_Witness ==
  /\ calculators[Target].mu = NoOwner
  /\ Len(hist[Target]) > windowSize
  /\ rejected
  /\ \E c \in Callers : frame[c].pc = "clock"

(***************************************************************************)
(* C5. After k calls of Add the buffer holds min(k, N) entries, and read   *)
(* from start in index order, wrapping around, they are the min(k, N)      *)
(* most recent arguments of Add, oldest first.                             *)
(***************************************************************************)
C5_BufferHoldsLastN ==
  \A s \in Symbols :
    /\ calculators[s].buffer.count = Min(Len(hist[s]), windowSize)
    /\ BufferEntries(calculators[s].buffer) = LastN(hist[s])
    /\ calculators[s].buffer.start \in 0..(DataLen - 1)
    /\ calculators[s].buffer.start % 2 = 0

\* The buffer has wrapped around: start has moved twice.
C5_Witness ==
  /\ Len(hist[Target]) = windowSize + 2
  /\ calculators[Target].buffer.start = 4
  /\ hist[Target][1] # hist[Target][2]

(***************************************************************************)
(* C6. Add returns removed = false on the first N inserts and, on insert   *)
(* N+k, removed = true with the price and size of insert k. With N = 3,    *)
(* after (10,1), (20,1), (30,1) the VWAP is 20, the add of (40,1) evicts   *)
(* (10,1), and the VWAP is then 30.                                        *)
(***************************************************************************)
Scenario == << Parsed(<< <<"1", "0">>, <<"1">> >>),
               Parsed(<< <<"2", "0">>, <<"1">> >>),
               Parsed(<< <<"3", "0">>, <<"1">> >>),
               Parsed(<< <<"4", "0">>, <<"1">> >>) >>

C6_EvictionIsFIFO ==
  \A c \in Callers :
    LET n == Len(hist[Target])
        f == frame[c]
    IN /\ f.pc \in {"sub", "sum", "unlock"} =>
            /\ f.removed <=> n > windowSize
            /\ f.removed =>
                 <<f.oldPrice, f.oldSize>> = hist[Target][n - windowSize]
            /\ ~f.removed => (f.oldPrice = Nil /\ f.oldSize = Nil)
       /\ (windowSize = 3 /\ hist[Target] = SubSeq(Scenario, 1, 3)
             /\ f.pc = "cunlock") =>
            Value(f.ret) = [num |-> 20, den |-> 1]
       /\ (windowSize = 3 /\ hist[Target] = Scenario /\ f.pc = "sub") =>
            <<f.oldPrice, f.oldSize>> = Scenario[1]
       /\ (windowSize = 3 /\ hist[Target] = Scenario /\ f.pc = "cunlock") =>
            Value(f.ret) = [num |-> 30, den |-> 1]

\* The second eviction has returned the second insert, which differs from
\* the first and the third.
C6_Witness ==
  \E c \in Callers :
    /\ frame[c].pc = "sub"
    /\ frame[c].removed
    /\ Len(hist[Target]) = windowSize + 2
    /\ <<frame[c].oldPrice, frame[c].oldSize>> = hist[Target][2]
    /\ hist[Target][2] # hist[Target][1]
    /\ hist[Target][2] # hist[Target][3]

(***************************************************************************)
(* C7. With no accepted update Calculate returns "0", also after rejected  *)
(* calls; it never divides by zero; and once an update has been accepted   *)
(* it does not return through the zero branch.                             *)
(***************************************************************************)
C7_ZeroValueOnlyWhenEmpty ==
  \A c \in Callers :
    frame[c].pc = "cunlock" =>
      /\ frame[c].ret # Panic
      /\ Len(hist[Target]) = 0 => frame[c].ret = <<"0">>
      /\ Len(hist[Target]) >= 1 => frame[c].ret # <<"0">>

\* Calculate has returned "0" after a rejected Update and no accepted one.
C7_Witness ==
  \E c \in Callers :
    /\ frame[c].pc = "cunlock"
    /\ rejected
    /\ Len(hist[Target]) = 0
    /\ frame[c].ret = <<"0">>

(***************************************************************************)
(* C8. The insert, the subtraction of the evicted entry and the addition   *)
(* of the new one are one atomic step for every other caller: at most one  *)
(* caller is between Lock and Unlock, a caller that has just taken the     *)
(* lock finds the sums matching the buffer, Calculate computes its result  *)
(* from such a state, and the sums differ from the buffer only while an    *)
(* Update holds the lock.                                                  *)
(***************************************************************************)
C8_UpdateIsAtomic ==
  LET v == calculators[Target]
  IN /\ \A c \in Callers : InCritical(c) <=> v.mu = c
     /\ \A c, d \in Callers : (InCritical(c) /\ InCritical(d)) => c = d
     /\ \A c \in Callers : frame[c].pc \in {"add", "calc"} => Consistent(v)
     /\ \A c \in Callers :
          frame[c].pc = "cunlock" =>
            /\ Consistent(v)
            /\ frame[c].ret = CalculateResult(
                 [v EXCEPT !.totalPV = SumPV(LastN(hist[Target])),
                           !.totalVolume = SumV(LastN(hist[Target]))])
     /\ ~Consistent(v) => \E c \in Callers : frame[c].pc \in {"sub", "sum"}

\* The evicted entry has been subtracted and the new one not yet added,
\* while a Calculate waits for the lock.
C8_Witness ==
  \E c, d \in Callers :
    /\ c # d
    /\ frame[c].pc = "sum"
    /\ frame[c].removed
    /\ ~Consistent(calculators[Target])
    /\ frame[d].pc = "clock"

(***************************************************************************)
(* C9. A run of connect failures gets at most maxRetries retries: main     *)
(* sleeps and tries again after each of the first maxRetries failures of   *)
(* the run, and stops for good on the next one. With maxRetries = 5, six   *)
(* failures in a row are the first attempt and five retries; the fifth     *)
(* failed retry ends main, and no sixth retry is made.                     *)
(***************************************************************************)
C9_RetriesAreBounded ==
  /\ [](/\ failRun <= maxRetries + 1
        /\ mainPc = "failed" <=> failRun = maxRetries + 1
        /\ mainPc = "sleepRetry" => (failRun >= 1 /\ failRun <= maxRetries)
        /\ mainPc = "connect" => failRun <= maxRetries)
  /\ [][mainPc = "failed" =>
          (mainPc' = "failed" /\ totalFails' = totalFails /\ conn' = conn
             /\ connBudget' = connBudget)]_vars

\* main has stopped after six failed connects in a row, the only six.
C9_Witness ==
  /\ mainPc = "failed"
  /\ maxRetries = 5
  /\ failRun = 6
  /\ totalFails = 6
  /\ connBudget = MaxConns

(***************************************************************************)
(* C10. A successful connect sets retryCount to zero, so retryCount is the *)
(* number of connects that have failed in a row: main stops only after     *)
(* more than maxRetries failures in a row, however many connects have      *)
(* failed in all.                                                          *)
(***************************************************************************)
C10_SuccessResetsRetryCount ==
  /\ [](/\ retryCount = failRun
        /\ mainPc = "failed" => failRun > maxRetries
        /\ mainPc \in {"subscribe", "select", "process", "calculate",
                       "close", "sleepReconnect"} => retryCount = 0)
  /\ [][(mainPc = "connect" /\ mainPc' = "subscribe") =>
          retryCount' = 0]_vars

\* More connects have failed in all than a run may hold, and main is
\* connected with retryCount back at zero.
C10_Witness ==
  /\ totalFails > maxRetries + 1
  /\ mainPc = "select"
  /\ conn = "open"
  /\ retryCount = 0

(***************************************************************************)
(* C11. Failures of every kind count towards the cap: once more than       *)
(* maxRetries connects, subscription writes and reads have failed in a row *)
(* with no frame read in between, main does not try to connect again.      *)
(***************************************************************************)
C11_AnyFailureRunIsBounded ==
  mainPc = "connect" => anyFailRun <= maxRetries

(***************************************************************************)
(* C12. Failed is terminal. When main has returned for want of retries no  *)
(* connection is open, no reader is running and no frame is in flight;     *)
(* from then on nothing connects, subscribes, reads or updates, and every  *)
(* calculator stays as it was at that moment, unlocked and with sums that  *)
(* match its buffer.                                                       *)
(***************************************************************************)
C12_FailedIsTerminal ==
  /\ [](mainPc = "failed" =>
          /\ conn # "open"
          /\ readerPc \in {"none", "done"}
          /\ pending = NoFrame
          /\ cur = NoFrame
          /\ \A s \in Symbols : /\ Consistent(calculators[s])
                                /\ calculators[s].mu = NoOwner)
  /\ [][mainPc = "failed" =>
          UNCHANGED <<mainPc, retryCount, conn, connBudget, subsSent,
                      readerPc, readLog, procLog, calls, locks, calculators,
                      hist, out>>]_vars

\* main has failed after a connection on which a trade was accepted.
C12_Witness ==
  /\ mainPc = "failed"
  /\ readerPc = "done"
  /\ hist["ETH-USD"] # <<>>
  /\ calculators["ETH-USD"].buffer.count > 0

(***************************************************************************)
(* The states of the feed, read off main and the reader.                   *)
(***************************************************************************)
\* handleConnection is in its select loop.
HandlerPcs == {"select", "process", "calculate"}

\* The first ReadMessage of this connection has returned.
FirstReadDone == readLog # <<>> \/ readerPc \in {"sendErr", "done"}

FeedState ==
  IF mainPc = "failed" THEN "Failed"
  ELSE IF mainPc \in {"connect", "subscribe"} THEN "Connecting"
  ELSE IF mainPc \in HandlerPcs
    THEN IF FirstReadDone THEN "Streaming" ELSE "Subscribed"
  ELSE "Disconnected"

FeedStates ==
  {"Disconnected", "Connecting", "Subscribed", "Streaming", "Failed"}

\* Disconnected -> Connecting -> Subscribed -> Streaming -> Disconnected
ChainMoves ==
  { <<"Disconnected", "Connecting">>, <<"Connecting", "Subscribed">>,
    <<"Subscribed", "Streaming">>, <<"Streaming", "Disconnected">> }

\* The subscription of this connection: written at most once, and written
\* before the handler loops or the reader reads; after a write that failed
\* no reader is started and no frame is read or dispatched.
SubscribedBeforeReading ==
  /\ subsSent <= 1
  /\ mainPc = "subscribe" => subsSent = 0
  /\ (conn = "open" /\ mainPc # "subscribe") => subsSent = 1
  /\ mainPc \in HandlerPcs => subscribed = "ok"
  /\ (readLog # <<>> \/ procLog # <<>> \/ readerPc # "none") =>
       (subsSent = 1 /\ subscribed = "ok")
  /\ subscribed = "failed" =>
       (readLog = <<>> /\ procLog = <<>> /\ readerPc = "none"
          /\ mainPc \notin HandlerPcs)

(***************************************************************************)
(* C13. Each connection is sent exactly one subscription request, before   *)
(* any of its frames is read or dispatched, and none of its frames is read *)
(* when that write failed. The feed moves along Disconnected -> Connecting *)
(* -> Subscribed -> Streaming -> Disconnected, from Connecting back to     *)
(* Disconnected when the connect or the subscription write fails, and from *)
(* Connecting to Failed; Failed is left by no move.                        *)
(***************************************************************************)
C13_SubscribeOnceAndMoves ==
  /\ []SubscribedBeforeReading
  /\ [][\/ FeedState' = FeedState
        \/ <<FeedState, FeedState'>> \in
             ChainMoves \cup { <<"Connecting", "Disconnected">>,
                               <<"Connecting", "Failed">> }]_vars

\* As stated: the chain and the move to Failed are the only moves.
C13_FeedMovesAlongChainOnly ==
  /\ []SubscribedBeforeReading
  /\ [][\/ FeedState' = FeedState
        \/ <<FeedState, FeedState'>> \in
             ChainMoves \cup {<<s, "Failed">> : s \in FeedStates}]_vars

\* The first connection went from Connecting back to Disconnected on a
\* subscription write that failed; the second, with its one subscription
\* written, is streaming.
C13_Witness ==
  /\ connBudget = MaxConns - 2
  /\ FeedState = "Streaming"
  /\ subsSent = 1
  /\ log["subscribed"] = 1
  /\ log["handlingFailed"] = 1
  /\ readLog # <<>>

\* The frames read and not yet handed to processMessage: the one
\* handleConnection has received and the one readMessages is sending.
InFlight ==
  (IF mainPc = "process" THEN <<cur>> ELSE <<>>)
    \o (IF readerPc = "sendMsg" THEN <<pending>> ELSE <<>>)

(***************************************************************************)
(* C14. On one connection the frames handed to processMessage are, in      *)
(* order, the frames ReadMessage returned, less those still in flight:     *)
(* none is dropped, doubled or reordered. Once the read error has ended    *)
(* the connection, every frame read before it has been handed over.        *)
(***************************************************************************)
C14_FramesHandedOverInOrder ==
  /\ readLog = procLog \o InFlight
  /\ Len(InFlight) <= 2
  /\ readerPc = "done" => (readLog = procLog /\ pending = NoFrame)

\* A connection ended by a read error after two different frames, both
\* handed over.
C14_Witness ==
  /\ readerPc = "done"
  /\ mainPc = "close"
  /\ Len(readLog) >= 2
  /\ readLog[1] # readLog[2]
  /\ procLog = readLog

\* processMessage has been called with cur and takes its first step.
ProcessActs == mainPc = "process" /\ mainPc' # "process"

\* cur does not decode, or is a match for a product that is not registered.
CurIsDiscarded ==
  \/ ~cur.wellFormed
  \/ cur.type = "match" /\ cur.product_id \notin Symbols

(***************************************************************************)
(* C15. A frame that does not decode, or a match for a product that is not *)
(* registered, is logged and dropped: no calculator, no lock and no output *)
(* changes, neither Update nor Calculate is called, and handleConnection   *)
(* is back at its select on the same open connection, still Streaming,     *)
(* with the retry counter and the reader as they were.                     *)
(***************************************************************************)
C15_DiscardedFrameHasNoEffect ==
  [][(ProcessActs /\ CurIsDiscarded) =>
       /\ mainPc' = "select"
       /\ conn = "open"
       /\ FeedState = "Streaming"
       /\ FeedState' = "Streaming"
       /\ UNCHANGED <<calculators, hist, out, locks, conn, retryCount,
                      failRun, anyFailRun, readerPc, pending, connBudget>>
       /\ calls'["Update"] = calls["Update"]
       /\ calls'["Calculate"] = calls["Calculate"]
       /\ log' = IF cur.wellFormed
                   THEN Counted(Counted(log, "receivedTrade"),
                                "unknownProduct")
                   ELSE Counted(log, "decodeError")]_vars

\* After a frame that did not decode and a match for an unknown product,
\* the next frame of the same connection was a trade, and its line is out.
C15_Witness ==
  /\ Len(procLog) = 3
  /\ procLog[1] = Malformed
  /\ procLog[2].type = "match"
  /\ procLog[2].product_id \notin Symbols
  /\ mainPc = "select"
  /\ Len(out) = 1
  /\ log["decodeError"] = 1
  /\ log["unknownProduct"] = 1

(***************************************************************************)
(* C16. A frame that decodes and whose type is not "match" is ignored in   *)
(* silence: processMessage returns with no lookup, no Update, no           *)
(* Calculate, no lock taken, no log entry and no output, and every         *)
(* calculator is as it was.                                                *)
(***************************************************************************)
C16_NonMatchFrameIsIgnored ==
  [][(ProcessActs /\ cur.wellFormed /\ cur.type # "match") =>
       /\ mainPc' = "select"
       /\ UNCHANGED <<calculators, hist, out, log, calls, locks>>]_vars

\* A "subscriptions" frame has been through processMessage and nothing has
\* been looked up or logged for it.
C16_Witness ==
  /\ Len(procLog) = 1
  /\ procLog[1].wellFormed
  /\ procLog[1].type = "subscriptions"
  /\ mainPc = "select"
  /\ calls["lookup"] = 0
  /\ log["receivedTrade"] = 0
  /\ log["decodeError"] = 0
  /\ out = <<>>

\* cur is a match for a registered product.
CurIsTrade ==
  cur.wellFormed /\ cur.type = "match" /\ cur.product_id \in Symbols

\* How many trades the calculators have accepted from the feed.
TradesIn == SumOver([s \in Symbols |-> Len(hist[s])], Symbols)

(***************************************************************************)
(* C17. For a match of a registered product processMessage looks the       *)
(* calculator up and calls Update. A rejected trade ends the call there:   *)
(* it is logged, nothing is printed and no calculator changes. An accepted *)
(* trade is followed by one Calculate and one printed line, with no change *)
(* of any calculator between the two, so the value printed is the rounded  *)
(* VWAP of the product's window ending with that trade. Lines printed,     *)
(* Calculate calls and accepted trades are equal in number.                *)
(***************************************************************************)
C17_UpdateThenCalculateThenOneLine ==
  /\ [](/\ Len(out) = calls["Calculate"]
        /\ TradesIn = Len(out) + (IF mainPc = "calculate" THEN 1 ELSE 0)
        /\ mainPc = "calculate" =>
             /\ CurIsTrade
             /\ ValidTrade(cur.price, cur.size)
             /\ hist[cur.product_id] # <<>>
             /\ hist[cur.product_id][Len(hist[cur.product_id])] =
                  Parsed(<<cur.price, cur.size>>))
  /\ [][(ProcessActs /\ CurIsTrade) =>
          /\ calls' = Counted(Counted(calls, "lookup"), "Update")
          /\ out' = out
          /\ IF ValidTrade(cur.price, cur.size)
               THEN /\ mainPc' = "calculate"
                    /\ cur' = cur
                    /\ hist' = [hist EXCEPT ![cur.product_id] =
                                  Append(@, Parsed(<<cur.price, cur.size>>))]
               ELSE /\ mainPc' = "select"
                    /\ log'["updateFailed"] = log["updateFailed"] + 1
                    /\ UNCHANGED <<calculators, hist>>]_vars
  /\ [][mainPc = "calculate" =>
          /\ UNCHANGED <<calculators, hist>>
          /\ mainPc' # "calculate" =>
               /\ mainPc' = "select"
               /\ calls' = Counted(calls, "Calculate")
               /\ out' = Append(out,
                    <<cur.product_id,
                      FloatString(Ratio(LastN(hist[cur.product_id])), 4)>>)]_vars

\* Three trades of one product have been through Update: two accepted and
\* printed, one rejected and logged.
C17_Witness ==
  /\ mainPc = "select"
  /\ calls["Update"] = 3
  /\ log["updateFailed"] = 1
  /\ Len(hist["ETH-USD"]) = 2
  /\ Len(out) = 2
  /\ out[2][1] = "ETH-USD"

(***************************************************************************)
(* C18. The calculators are independent. A step changes the state of a     *)
(* symbol's calculator, its accepted trades or the count of its lock only  *)
(* while processMessage handles a match of that very symbol; the state and *)
(* the Calculate result of every other symbol stay as they were. The       *)
(* registry holds the same symbols throughout.                             *)
(***************************************************************************)
C18_SymbolsAreIndependent ==
  /\ [](DOMAIN calculators = Symbols)
  /\ [][\A s \in Symbols :
          \/ /\ calculators'[s] = calculators[s]
             /\ CalculateResult(calculators'[s]) =
                  CalculateResult(calculators[s])
             /\ hist'[s] = hist[s]
             /\ locks'[s] = locks[s]
          \/ /\ mainPc \in {"process", "calculate"}
             /\ cur.wellFormed
             /\ cur.type = "match"
             /\ cur.product_id = s]_vars

\* Trades of ETH-USD have been accepted and printed, its lock taken for
\* each Update and each Calculate; the other calculators are as made.
C18_Witness ==
  /\ Len(hist["ETH-USD"]) = 2
  /\ locks["ETH-USD"] = 4
  /\ calculators["ETH-USD"] # NewVWAPCalculator
  /\ \A s \in Symbols \ {"ETH-USD"} :
       /\ calculators[s] = NewVWAPCalculator
       /\ locks[s] = 0
       /\ hist[s] = <<>>

\* The caller holding the mutex of calculator s, or NoOwner.
Holder(s) == calculators[s].mu

(***************************************************************************)
(* C19. The mutex of a calculator is held exactly by a caller between the  *)
(* Lock and the Unlock of its Update or Calculate: a caller that has       *)
(* returned, or has not got past Lock, holds nothing. A step taken while   *)
(* the mutex is held changes the calculator and the callers' locals only:  *)
(* no log entry, output, connection, channel or sleep. So whoever holds    *)
(* the mutex releases it, and a caller waiting in Lock gets it.            *)
(***************************************************************************)
C19_LockHeldInsideOnlyAndObtained ==
  /\ [](\A c \in Callers : Holder(Target) = c <=> InCritical(c))
  /\ [](\A s \in Symbols \ {Target} : Holder(s) = NoOwner)
  /\ [](Quiescent => Holder(Target) = NoOwner)
  /\ [][Holder(Target) # NoOwner => UNCHANGED feedVars]_vars
  /\ \A c \in Callers :
       /\ InCritical(c) ~> ~InCritical(c)
       /\ frame[c].pc = "lock" ~> frame[c].pc = "add"
       /\ frame[c].pc = "clock" ~> frame[c].pc = "calc"

\* One caller waits in the Lock of Update while the other, inside Update
\* after an eviction, holds the mutex.
C19_Witness ==
  \E c, d \in Callers :
    /\ c # d
    /\ frame[c].pc = "lock"
    /\ frame[d].pc = "sub"
    /\ Holder(Target) = d

\* readMessages is running: in ReadMessage or in a send.
ReaderLive == readerPc \in {"read", "sendMsg", "sendErr"}

(***************************************************************************)
(* C20. The reader ends with its connection. While readMessages runs,      *)
(* handleConnection is in its select loop, so each send of the reader is   *)
(* received; once handleConnection has returned from a connection whose    *)
(* reader was started, the reader has handed over its error and returned,  *)
(* with no frame left in a send. While handleConnection is in its loop the *)
(* reader has not returned, so the channels are open and every value       *)
(* processed is a frame the reader sent.                                   *)
(***************************************************************************)
C20_ReaderEndsWithItsConnection ==
  /\ ReaderLive => (mainPc \in HandlerPcs /\ conn = "open")
  /\ mainPc \in HandlerPcs => ReaderLive
  /\ (mainPc \notin HandlerPcs /\ subscribed = "ok") =>
       (readerPc = "done" /\ pending = NoFrame /\ cur = NoFrame)
  /\ subscribed # "ok" => readerPc = "none"
  /\ \A i \in 1..Len(procLog) : procLog[i] \in FeedFrames
  /\ mainPc \in {"process", "calculate"} => cur \in FeedFrames

\* handleConnection has returned from a connection that delivered frames,
\* main has closed it, and the reader is gone.
C20_Witness ==
  /\ mainPc = "sleepReconnect"
  /\ conn = "closed"
  /\ subscribed = "ok"
  /\ readerPc = "done"
  /\ procLog # <<>>

\* The connect attempts made so far: connectWebSocket logs each one.
Attempts == log["connecting"]

(***************************************************************************)
(* C21. One retryDelay lies between every two connect attempts. When main  *)
(* is about to connect it has slept once for each attempt made so far;     *)
(* anywhere else, the last attempt has not been followed by its sleep yet. *)
(* main sleeps only after a failed connect with retries left or after      *)
(* closing a connection, always for retryDelay and always on its way back  *)
(* to the connect; the step into Failed is taken from the connect itself,  *)
(* with no sleep.                                                          *)
(***************************************************************************)
C21_DelayBetweenAttempts ==
  /\ [](slept = retryDelay *
                  (Attempts - (IF mainPc = "connect" THEN 0 ELSE 1)))
  /\ [][Attempts' # Attempts =>
          /\ Attempts' = Attempts + 1
          /\ slept = retryDelay * Attempts
          /\ slept' = slept]_vars
  /\ [][slept' # slept =>
          /\ slept' = slept + retryDelay
          /\ mainPc \in {"sleepRetry", "sleepReconnect"}
          /\ mainPc' = "connect"]_vars
  /\ [][(mainPc # "failed" /\ mainPc' = "failed") =>
          (mainPc = "connect" /\ slept' = slept)]_vars

\* Two connects have failed and one connection has ended; main has slept
\* three times and is about to connect for the fourth time.
C21_Witness ==
  /\ mainPc = "connect"
  /\ totalFails = 2
  /\ connBudget = MaxConns - 1
  /\ Attempts = 3
  /\ slept = 3 * retryDelay

(***************************************************************************)
(* C22. At most one connection is open. A connection is open from the      *)
(* successful connect until main closes it, right after handleConnection   *)
(* has returned; none is open while main sleeps, is about to connect or    *)
(* has failed, and every connection opened before has been closed.         *)
(***************************************************************************)
C22_AtMostOneConnectionOpen ==
  /\ openConns \in {0, 1}
  /\ openConns = 1 <=> conn = "open"
  /\ mainPc \in {"connect", "sleepRetry", "sleepReconnect", "failed"} =>
       openConns = 0
  /\ mainPc \in {"subscribe", "select", "process", "calculate", "close"} =>
       openConns = 1
  /\ MaxConns - connBudget = log["handlingFailed"] + openConns

\* The second connection is open; the first, ended by a read error, has
\* been closed.
C22_Witness ==
  /\ connBudget = MaxConns - 2
  /\ log["subscribed"] = 2
  /\ log["handlingFailed"] = 1
  /\ mainPc = "select"
  /\ openConns = 1

====
